---- MODULE Spec2Model ----
(***************************************************************************)
(* A model of nanobot's OpenAI-compatible provider                         *)
(* (nanobot/providers/openai_provider.py): construction of the adapter     *)
(* (API key resolution), the chat coroutine (request shaping, the single   *)
(* awaited network call, the broad except clause) and _parse_response.     *)
(*                                                                         *)
(* Python values that may have more than one type at a program point are   *)
(* tagged records [type, val]; objects are records whose fields are the    *)
(* attributes (hasattr is membership in DOMAIN); dicts are functions from  *)
(* strings to values.                                                      *)
(***************************************************************************)
EXTENDS Integers, Sequences, FiniteSets, TLC

VARIABLES config, environ, provider, calls

vars == <<config, environ, provider, calls>>

(***************************************************************************)
(* Bounds of the model.                                                    *)
(***************************************************************************)
NCalls == 2
MaxToolCalls == 2

CallIds == 1..NCalls

(***************************************************************************)
(* Python values.                                                          *)
(***************************************************************************)
None == [type |-> "NoneType"]
Str(s) == [type |-> "str", val |-> s]
Bool(b) == [type |-> "bool", val |-> b]
PyInt(i) == [type |-> "int", val |-> i]
PyFloat(whole, frac) == [type |-> "float", val |-> <<whole, frac>>]
List(q) == [type |-> "list", val |-> q]
Dict(f) == [type |-> "dict", val |-> f]
Obj(r) == [type |-> "object", val |-> r]

EmptyDict == [k \in {} |-> None]

\* Python truth value testing (bool(x)).
Truthy(x) ==
    CASE x.type = "NoneType" -> FALSE
      [] x.type = "str" -> x.val # ""
      [] x.type = "bool" -> x.val
      [] x.type = "int" -> x.val # 0
      [] x.type = "float" -> x.val # <<0, 0>>
      [] x.type = "list" -> x.val # <<>>
      [] x.type = "dict" -> DOMAIN x.val # {}
      [] OTHER -> TRUE

\* Python "x or y".
Or(x, y) == IF Truthy(x) THEN x ELSE y

\* isinstance(x, str)
IsStr(x) == x.type = "str"

\* str.startswith for a one-character prefix.
startswith(s, prefix) == Len(s) >= 1 /\ Head(s) = prefix

\* s[1:]
SliceFrom1(s) == IF s = "" THEN "" ELSE Tail(s)

LowerChar(ch) ==
    CASE ch = "G" -> "g"
      [] ch = "L" -> "l"
      [] ch = "M" -> "m"
      [] ch = "P" -> "p"
      [] ch = "T" -> "t"
      [] OTHER -> ch

RECURSIVE lower(_)
\* str.lower
lower(s) == IF s = "" THEN "" ELSE LowerChar(Head(s)) \o lower(Tail(s))

\* Python "sub in s" for strings.
Contains(sub, s) ==
    \E i \in 1..(Len(s) - Len(sub) + 1) : SubSeq(s, i, i + Len(sub) - 1) = sub

(***************************************************************************)
(* Construction: OpenAIProvider.__init__                                   *)
(***************************************************************************)
NotConstructed == [type |-> "unconstructed"]

DefaultBaseUrl == "https://integrate.api.nvidia.com/v1"

\* os.getenv(name, default): the environment maps the names that are set to
\* their values.
os_getenv(env, name, default) ==
    IF name \in DOMAIN env THEN Str(env[name]) ELSE default

\* A mutant of ResolveKey: os.getenv without the fallback to the literal key.
ResolveKeyNoFallback(api_key, env) ==
    IF Truthy(api_key) /\ startswith(api_key.val, "$")
    THEN os_getenv(env, SliceFrom1(api_key.val), None)
    ELSE api_key

\* Lines 30-33: the "$NAME" indirection.
ResolveKey(api_key, env) ==
    IF Truthy(api_key) /\ startswith(api_key.val, "$")
    THEN os_getenv(env, SliceFrom1(api_key.val), api_key)
    ELSE api_key

\* AsyncOpenAI(base_url=..., api_key=...): the client handle keeps what it
\* was given.
AsyncOpenAI(base_url, api_key) == [base_url |-> base_url, api_key |-> api_key]

OpenAIProvider__init__(cfg, env) ==
    [type |-> "OpenAIProvider",
     default_model |-> cfg.default_model,
     client |-> AsyncOpenAI(Or(cfg.api_base, Str(DefaultBaseUrl)),
                            Or(ResolveKey(cfg.api_key, env), Str("dummy-key")))]

(***************************************************************************)
(* Inputs of construction.                                                 *)
(***************************************************************************)
EnvNames == {"MY_KEY", "NVIDIA_API_KEY"}
EnvValues == {"", "abc123"}
Environs == UNION {[S -> EnvValues] : S \in SUBSET EnvNames}

ApiKeys == {None, Str(""), Str("$"), Str("$MY_KEY"), Str("$NVIDIA_API_KEY"),
            Str("$UNSET_VAR"), Str("sk-literal")}
ApiBases == {None, Str("http://localhost:8000/v1")}
DefaultModels == {"z-ai/glm4.7", "gpt-4"}

Configs == [api_key : ApiKeys, api_base : ApiBases, default_model : DefaultModels]

IdleCall == [pc |-> "idle", issued |-> 0]

InitWith(Cfgs, Envs) ==
    /\ config \in Cfgs
    /\ environ \in Envs
    /\ provider = NotConstructed
    /\ calls = [c \in CallIds |-> IdleCall]

Construct ==
    /\ provider = NotConstructed
    /\ provider' = OpenAIProvider__init__(config, environ)
    /\ UNCHANGED <<config, environ, calls>>

InitCtor == InitWith(Configs, Environs)
NextCtor == Construct
SpecCtor == InitCtor /\ [][NextCtor]_vars

(***************************************************************************)
(* Exceptions: an exception object carries its class, the classes it is an *)
(* instance of, and str(e).                                                *)
(***************************************************************************)
Exc(cls, bases, msg) == [cls |-> cls, bases |-> {cls} \cup bases, msg |-> msg]

IsInstance(e, cls) == cls \in e.bases
str(e) == e.msg

ExceptionBases == {"Exception", "BaseException"}

APIConnectionError ==
    Exc("APIConnectionError", {"APIError", "OpenAIError"} \cup ExceptionBases,
        "Connection error.")
AuthenticationError ==
    Exc("AuthenticationError",
        {"APIStatusError", "APIError", "OpenAIError"} \cup ExceptionBases,
        "Error code: 401")
\* asyncio.CancelledError derives from BaseException, not from Exception.
CancelledError == Exc("CancelledError", {"BaseException"}, "")
IndexError == Exc("IndexError", {"LookupError"} \cup ExceptionBases,
                  "list index out of range")
NoneSubscript == Exc("TypeError", ExceptionBases,
                     "'NoneType' object is not subscriptable")
NoChoicesAttr == Exc("AttributeError", ExceptionBases,
                     "'AsyncStream' object has no attribute 'choices'")
JSONDecodeError(msg) ==
    Exc("JSONDecodeError", {"ValueError"} \cup ExceptionBases, msg)

Return(v) == [kind |-> "return", value |-> v]
Raise(e) == [kind |-> "raise", exc |-> e]

(***************************************************************************)
(* chat: building the request (lines 65-91).                               *)
(***************************************************************************)
ThinkingBody ==
    Dict([chat_template_kwargs |->
            Dict([enable_thinking |-> Bool(TRUE), clear_thinking |-> Bool(FALSE)])])

\* A mutant of BuildKwargs: the model name is matched without lower().
BuildKwargsCaseSensitive(self, a) ==
    LET model == Or(a.model, Str(self.default_model))
        base == [model |-> model,
                 messages |-> a.messages,
                 temperature |-> a.temperature,
                 max_tokens |-> a.max_tokens,
                 stream |-> Bool(FALSE)]
        thinking == IF a.enable_thinking /\ Contains("glm", model.val)
                    THEN ("extra_body" :> ThinkingBody) @@ base
                    ELSE base
        withTools == IF Truthy(a.tools)
                     THEN ("tools" :> a.tools) @@ ("tool_choice" :> Str("auto"))
                          @@ thinking
                     ELSE thinking
    IN  a.extra_kwargs @@ withTools

\* A mutant of BuildKwargs: the tool parameters are attached whenever tools
\* is not None.
BuildKwargsToolsNotNone(self, a) ==
    LET model == Or(a.model, Str(self.default_model))
        base == [model |-> model,
                 messages |-> a.messages,
                 temperature |-> a.temperature,
                 max_tokens |-> a.max_tokens,
                 stream |-> Bool(FALSE)]
        thinking == IF a.enable_thinking /\ Contains("glm", lower(model.val))
                    THEN ("extra_body" :> ThinkingBody) @@ base
                    ELSE base
        withTools == IF a.tools # None
                     THEN ("tools" :> a.tools) @@ ("tool_choice" :> Str("auto"))
                          @@ thinking
                     ELSE thinking
    IN  a.extra_kwargs @@ withTools

\* A mutant of BuildKwargs: the request asks for a streamed reply.
BuildKwargsStreaming(self, a) ==
    LET model == Or(a.model, Str(self.default_model))
        base == [model |-> model,
                 messages |-> a.messages,
                 temperature |-> a.temperature,
                 max_tokens |-> a.max_tokens,
                 stream |-> Bool(TRUE)]
        thinking == IF a.enable_thinking /\ Contains("glm", lower(model.val))
                    THEN ("extra_body" :> ThinkingBody) @@ base
                    ELSE base
        withTools == IF Truthy(a.tools)
                     THEN ("tools" :> a.tools) @@ ("tool_choice" :> Str("auto"))
                          @@ thinking
                     ELSE thinking
    IN  a.extra_kwargs @@ withTools

\* kwargs as passed to client.chat.completions.create(**kwargs); dict.update
\* lets the extra options win.
BuildKwargs(self, a) ==
    LET model == Or(a.model, Str(self.default_model))
        base == [model |-> model,
                 messages |-> a.messages,
                 temperature |-> a.temperature,
                 max_tokens |-> a.max_tokens,
                 stream |-> Bool(FALSE)]
        thinking == IF a.enable_thinking /\ Contains("glm", lower(model.val))
                    THEN ("extra_body" :> ThinkingBody) @@ base
                    ELSE base
        withTools == IF Truthy(a.tools)
                     THEN ("tools" :> a.tools) @@ ("tool_choice" :> Str("auto"))
                          @@ thinking
                     ELSE thinking
    IN  a.extra_kwargs @@ withTools

\* A mutant of SelfAfterChat: chat remembers the resolved model on the adapter.
SelfAfterChatStoresModel(self, a) ==
    [self EXCEPT !.default_model = Or(a.model, Str(self.default_model)).val]

\* chat assigns no attribute of self.
SelfAfterChat(self, a) == self

(***************************************************************************)
(* _parse_response (lines 102-146).                                        *)
(***************************************************************************)
\* json.loads on the argument texts the vendor replies of this model carry:
\* the decoded value, or JSONDecodeError for a text that is not JSON.
json_loads(s) ==
    CASE s = "{\"city\": \"Paris\"}" -> Return(Dict([city |-> Str("Paris")]))
      [] s = "{}" -> Return(Dict(EmptyDict))
      [] s = "[1, 2]" -> Return(List(<<PyInt(1), PyInt(2)>>))
      [] s = "7" -> Return(PyInt(7))
      [] s = "null" -> Return(None)
      [] s = "\"Paris\"" -> Return(Str("Paris"))
      [] s = "" -> Raise(JSONDecodeError("Expecting value: line 1 column 1 (char 0)"))
      [] s = "{\"city\": " ->
            Raise(JSONDecodeError("Expecting value: line 1 column 10 (char 9)"))
      [] OTHER -> Raise(JSONDecodeError("Expecting value: line 1 column 1 (char 0)"))

\* A mutant of DecodeArgs: a text that does not decode becomes the empty mapping.
DecodeArgsDropsRaw(args) ==
    IF IsStr(args)
    THEN LET r == json_loads(args.val)
         IN  IF r.kind = "return" THEN r.value
             ELSE Dict(EmptyDict)
    ELSE args

\* Lines 118-124: a string payload is decoded, JSONDecodeError (all that
\* json_loads raises) falls back to {"raw": args}; any other payload is
\* passed on as it is.
DecodeArgs(args) ==
    IF IsStr(args)
    THEN LET r == json_loads(args.val)
         IN  IF r.kind = "return" THEN r.value
             ELSE Dict([raw |-> args])
    ELSE args

ToolCallRequest(id, name, arguments) ==
    [id |-> id, name |-> name, arguments |-> arguments]

RECURSIVE ToolCallLoop(_, _)
\* Lines 117-130: the loop over message.tool_calls, appending in order.
ToolCallLoop(tcs, tool_calls) ==
    IF tcs = <<>> THEN tool_calls
    ELSE LET tc == Head(tcs)
         IN  ToolCallLoop(Tail(tcs),
                 Append(tool_calls,
                        ToolCallRequest(tc.id, tc.function.name,
                                        DecodeArgs(tc.function.arguments))))

\* Lines 115-116.
ExtractToolCalls(message) ==
    IF "tool_calls" \in DOMAIN message /\ Truthy(message.tool_calls)
    THEN ToolCallLoop(message.tool_calls.val, <<>>)
    ELSE <<>>

\* Lines 133-139: usage is a dict of the three counters, or the empty dict.
ExtractUsage(response) ==
    IF "usage" \in DOMAIN response /\ Truthy(response.usage)
    THEN [prompt_tokens |-> response.usage.val.prompt_tokens,
          completion_tokens |-> response.usage.val.completion_tokens,
          total_tokens |-> response.usage.val.total_tokens]
    ELSE EmptyDict

\* A mutant of FinishReason: a missing finish reason is reported as "length".
FinishReasonDefaultsLength(choice) == Or(choice.finish_reason, Str("length")).val

\* Line 144.
FinishReason(choice) == Or(choice.finish_reason, Str("stop")).val

\* The LLMResponse of a parsed reply (lines 141-146).
LLMResponse(content, tool_calls, finish_reason, usage) ==
    [content |-> content, tool_calls |-> tool_calls,
     finish_reason |-> finish_reason, usage |-> usage]

\* _parse_response either returns an LLMResponse or raises: response.choices[0]
\* raises when the reply has no choices attribute, choices is None, or the
\* list is empty.
parse_response(response) ==
    IF "choices" \notin DOMAIN response THEN Raise(NoChoicesAttr)
    ELSE IF response.choices.type = "NoneType" THEN Raise(NoneSubscript)
    ELSE IF response.choices.val = <<>> THEN Raise(IndexError)
    ELSE LET choice == response.choices.val[1]
             message == choice.message
             content == Or(message.content, Str("")).val
         IN  Return(LLMResponse(content,
                                ExtractToolCalls(message),
                                FinishReason(choice),
                                ExtractUsage(response)))

(***************************************************************************)
(* chat: the awaited call and its outcome (lines 93-100).                  *)
(***************************************************************************)
\* A mutant of Catches: only the SDK's own errors are caught.
CatchesOnlyAPIError(e) == IsInstance(e, "APIError")

\* "except Exception": an exception is caught iff it is an instance of
\* Exception.
Catches(e) == IsInstance(e, "Exception")

\* A mutant of ExceptHandler: a failed attempt is retried once.
ExceptHandlerRetries(call, e) ==
    IF call.issued < 2
    THEN [call EXCEPT !.issued = @ + 1]
    ELSE [pc |-> "returned",
          result |-> [content |-> "Error calling LLM: " \o str(e),
                      finish_reason |-> "error"]] @@ call

\* Lines 96-100: the handler returns the error-shaped LLMResponse.
ExceptHandler(call, e) ==
    [pc |-> "returned",
     result |-> [content |-> "Error calling LLM: " \o str(e),
                 finish_reason |-> "error"]] @@ call

\* The rest of chat once the awaited call has produced its outcome o: the
\* try body (line 95) and the except clause.
Resume(call, o) ==
    LET body == IF o.kind = "return" THEN parse_response(o.value) ELSE o
        seen == [outcome |-> o] @@ call
    IN  IF body.kind = "return"
        THEN [pc |-> "returned", result |-> body.value] @@ seen
        ELSE IF Catches(body.exc)
             THEN ExceptHandler(seen, body.exc)
             ELSE [pc |-> "raised", exception |-> body.exc] @@ seen

(***************************************************************************)
(* Inputs of chat and outcomes of the network call.                        *)
(***************************************************************************)
UserMessages == List(<<[role |-> "user", content |-> "hi"]>>)
WeatherTool ==
    [type |-> "function", function |-> [name |-> "tool_1", parameters |-> "schema"]]

ExtraKeys == {"stream", "tool_choice", "extra_body"}
ExtraValue(k) ==
    CASE k = "stream" -> Bool(TRUE)
      [] k = "tool_choice" -> Str("required")
      [] k = "extra_body" -> Dict([top_k |-> PyInt(5)])
ExtraKwargs == {[k \in S |-> ExtraValue(k)] : S \in SUBSET ExtraKeys}
NoExtra == [k \in {} |-> None]

ChatArgs ==
    [messages : {UserMessages},
     tools : {None, List(<<>>), List(<<WeatherTool>>)},
     model : {None, Str(""), Str("gpt-4"), Str("GLM-4")},
     max_tokens : {PyInt(16384)},
     temperature : {PyFloat(1, 0)},
     enable_thinking : BOOLEAN,
     extra_kwargs : ExtraKwargs]

ConcArgs ==
    [messages : {UserMessages},
     tools : {None},
     model : {None, Str("gpt-4"), Str("GLM-4")},
     max_tokens : {PyInt(16384)},
     temperature : {PyFloat(1, 0)},
     enable_thinking : {TRUE},
     extra_kwargs : {NoExtra}]

\* The argument payloads of a vendor tool call: texts that decode to an
\* object, a list, a number, null, a text that does not decode, and a payload
\* that is already a dict.
ArgPayloads ==
    {Str("{\"city\": \"Paris\"}"), Str("[1, 2]"), Str("7"), Str("null"),
     Str("{\"city\": "), Dict([city |-> Str("Paris")])}

VendorToolCall(i, payload) ==
    [id |-> "call_" \o ToString(i),
     function |-> [name |-> "tool_" \o ToString(i), arguments |-> payload]]

VendorToolCalls ==
    UNION {{[i \in 1..n |-> VendorToolCall(i, f[i])] : f \in [1..n -> ArgPayloads]}
           : n \in 0..MaxToolCalls}

VendorContents == {None, Str("hello")}
VendorFinishReasons == {None, Str("length")}
VendorUsage ==
    Obj([prompt_tokens |-> 10, completion_tokens |-> 5, total_tokens |-> 15])

VendorMessages ==
    {[content |-> c] : c \in VendorContents}
    \cup {[content |-> c, tool_calls |-> t] :
            c \in VendorContents, t \in {None} \cup {List(q) : q \in VendorToolCalls}}

VendorChoices == [message : VendorMessages, finish_reason : VendorFinishReasons]

\* A reply whose choices is None or empty cannot be parsed.
Completions ==
    {[choices |-> List(<<ch>>)] : ch \in VendorChoices}
    \cup {[choices |-> List(<<ch>>), usage |-> u] :
            ch \in VendorChoices, u \in {None, VendorUsage}}
    \cup {[choices |-> None], [choices |-> List(<<>>)]}

ConcCompletions ==
    {[choices |-> List(<<[message |-> [content |-> c, tool_calls |-> None],
                          finish_reason |-> Str("stop")]>>),
      usage |-> VendorUsage] : c \in {Str("hello"), Str("bye")}}
    \cup {[choices |-> List(<<>>)]}

\* With stream=True the SDK returns a stream object, which has no choices.
AsyncStream == [response |-> "AsyncStream"]

NetworkErrors == {APIConnectionError, AuthenticationError, CancelledError}

ConcErrors == {APIConnectionError}

\* The outcomes of awaiting create(**request): an exception is raised, or a
\* reply is returned.
Outcomes(request, Errors, Replies) ==
    {Raise(e) : e \in Errors}
    \cup (IF Truthy(request.stream)
          THEN {Return(AsyncStream)}
          ELSE {Return(r) : r \in Replies})

(***************************************************************************)
(* chat as two steps: up to the await of the network call, and from the    *)
(* call's outcome to the return.  Other coroutines run only at the await.  *)
(***************************************************************************)
ChatCall(c, Args) ==
    /\ provider.type = "OpenAIProvider"
    /\ calls[c].pc = "idle"
    /\ \E a \in Args :
         /\ calls' = [calls EXCEPT ![c] =
                [pc |-> "awaiting",
                 issued |-> calls[c].issued + 1,
                 args |-> a,
                 request |-> BuildKwargs(provider, a)]]
         /\ provider' = SelfAfterChat(provider, a)
    /\ UNCHANGED <<config, environ>>

ChatResume(c, Errors, Replies) ==
    /\ calls[c].pc = "awaiting"
    /\ \E o \in Outcomes(calls[c].request, Errors, Replies) :
         calls' = [calls EXCEPT ![c] = Resume(calls[c], o)]
    /\ UNCHANGED <<config, environ, provider>>

ChatConfigs ==
    [api_key : {Str("$NVIDIA_API_KEY")}, api_base : {None},
     default_model : DefaultModels]
ChatEnvirons == {[n \in {"NVIDIA_API_KEY"} |-> "abc123"]}

\* One chat call over the full input and outcome sets.
Init == InitWith(ChatConfigs, ChatEnvirons)
Next ==
    \/ Construct
    \/ ChatCall(1, ChatArgs)
    \/ ChatResume(1, NetworkErrors, Completions)
Spec == Init /\ [][Next]_vars

\* Concurrent chat calls on one adapter.
NextConc ==
    \/ Construct
    \/ \E c \in CallIds : ChatCall(c, ConcArgs)
    \/ \E c \in CallIds : ChatResume(c, ConcErrors, ConcCompletions)
SpecConc == Init /\ [][NextConc]_vars

(***************************************************************************)
(* Properties.                                                             *)
(***************************************************************************)
Constructed == provider.type = "OpenAIProvider"
Sent(c) == calls[c].pc # "idle"
Done(c) == calls[c].pc \in {"returned", "raised"}
Returned(c) == calls[c].pc = "returned"

\* The network call raised.
CallFailed(c) == calls[c].outcome.kind = "raise"
\* The network call returned a reply that has a first choice.
ReplyParsable(c) ==
    /\ calls[c].outcome.kind = "return"
    /\ "choices" \in DOMAIN calls[c].outcome.value
    /\ calls[c].outcome.value.choices.type = "list"
    /\ calls[c].outcome.value.choices.val # <<>>
\* The network call returned a reply that cannot be parsed.
ReplyUnparsable(c) == calls[c].outcome.kind = "return" /\ ~ReplyParsable(c)

ErrorShaped(r, msg) ==
    /\ DOMAIN r = {"content", "finish_reason"}
    /\ r.finish_reason = "error"
    /\ r.content = "Error calling LLM: " \o msg

VendorChoice(c) == calls[c].outcome.value.choices.val[1]
VendorCalls(c) ==
    IF "tool_calls" \in DOMAIN VendorChoice(c).message
       /\ VendorChoice(c).message.tool_calls.type = "list"
    THEN VendorChoice(c).message.tool_calls.val
    ELSE <<>>

\* C1 as stated: every finished chat call returned an LLMResponse, whatever
\* the outcome of the network call, and when the call raised or the reply
\* could not be parsed the response is the error-shaped one carrying the
\* failure's message.
C1_NeverRaises ==
    \A c \in CallIds : Done(c) =>
        /\ Returned(c)
        /\ {"content", "finish_reason"} \subseteq DOMAIN calls[c].result
        /\ CallFailed(c) => ErrorShaped(calls[c].result, calls[c].outcome.exc.msg)
        /\ ReplyUnparsable(c) => calls[c].result.finish_reason = "error"

\* C1 amended: a finished chat call returned an LLMResponse unless the
\* network call raised an exception that is not an instance of Exception
\* (asyncio.CancelledError), which propagates out of chat unchanged; a raised
\* Exception or an unparsable reply gives the error-shaped response with the
\* failure's message.
C1_NeverRaisesException ==
    \A c \in CallIds : Done(c) =>
        IF CallFailed(c) /\ "Exception" \notin calls[c].outcome.exc.bases
        THEN /\ calls[c].pc = "raised"
             /\ calls[c].exception = calls[c].outcome.exc
        ELSE /\ Returned(c)
             /\ {"content", "finish_reason"} \subseteq DOMAIN calls[c].result
             /\ CallFailed(c) =>
                    ErrorShaped(calls[c].result, calls[c].outcome.exc.msg)
             /\ ReplyUnparsable(c) =>
                    \E msg \in {"list index out of range",
                                "'NoneType' object is not subscriptable",
                                "'AsyncStream' object has no attribute 'choices'"} :
                        ErrorShaped(calls[c].result, msg)
             /\ ReplyParsable(c) => DOMAIN calls[c].result =
                    {"content", "tool_calls", "finish_reason", "usage"}

C1_Witness ==
    \E c \in CallIds :
        /\ Returned(c)
        /\ calls[c].outcome = Return([choices |-> List(<<>>)])
        /\ calls[c].result = [content |-> "Error calling LLM: list index out of range",
                              finish_reason |-> "error"]

\* C2 as stated: with tools None or empty the request has neither tools nor
\* tool_choice; with tools non-empty it has those tools and tool_choice "auto".
C2_ToolParams ==
    \A c \in CallIds : Sent(c) =>
        IF calls[c].args.tools \in {None, List(<<>>)}
        THEN /\ "tools" \notin DOMAIN calls[c].request
             /\ "tool_choice" \notin DOMAIN calls[c].request
        ELSE /\ calls[c].request["tools"] = calls[c].args.tools
             /\ calls[c].request["tool_choice"] = Str("auto")

\* C2 amended: with tools None or empty the request has no tools parameter,
\* and has a tool_choice parameter only when the extra options carry one
\* (then with the caller's value); with tools non-empty the request has those
\* tools, and tool_choice is "auto" unless the extra options carry a
\* tool_choice, which then replaces it.
C2_ToolParamsUnlessOverridden ==
    \A c \in CallIds : Sent(c) =>
        LET a == calls[c].args
            req == calls[c].request
            overridden == "tool_choice" \in DOMAIN a.extra_kwargs
        IN  /\ IF a.tools \in {None, List(<<>>)}
               THEN /\ "tools" \notin DOMAIN req
                    /\ ("tool_choice" \in DOMAIN req) <=> overridden
               ELSE /\ req["tools"] = a.tools
                    /\ ~overridden => req["tool_choice"] = Str("auto")
            /\ overridden => req["tool_choice"] = a.extra_kwargs["tool_choice"]

C2_Witness ==
    \E c \in CallIds :
        /\ Sent(c)
        /\ calls[c].args.tools = List(<<>>)
        /\ DOMAIN calls[c].args.extra_kwargs = {"stream"}
        /\ "tools" \notin DOMAIN calls[c].request
        /\ "tool_choice" \notin DOMAIN calls[c].request

\* C3 as stated: every request handed to the network client has stream false.
C3_NonStreaming ==
    \A c \in CallIds : Sent(c) => calls[c].request["stream"] = Bool(FALSE)

\* C3 amended: the request has stream false unless the extra options carry a
\* stream entry, in which case the request has the caller's value.
C3_NonStreamingUnlessOverridden ==
    \A c \in CallIds : Sent(c) =>
        IF "stream" \in DOMAIN calls[c].args.extra_kwargs
        THEN calls[c].request["stream"] = calls[c].args.extra_kwargs["stream"]
        ELSE calls[c].request["stream"] = Bool(FALSE)

C3_Witness ==
    \E c \in CallIds :
        /\ Sent(c)
        /\ DOMAIN calls[c].args.extra_kwargs = {"tool_choice", "extra_body"}
        /\ calls[c].request["stream"] = Bool(FALSE)

\* C4: in every returned LLMResponse, the arguments of every ToolCallRequest
\* is a mapping (a dict).
C4_ArgumentsAreMappings ==
    \A c \in CallIds : (Returned(c) /\ "tool_calls" \in DOMAIN calls[c].result) =>
        \A i \in DOMAIN calls[c].result.tool_calls :
            calls[c].result.tool_calls[i].arguments.type = "dict"

InvalidJson == Str("{\"city\": ")

\* C5: when a vendor tool call's payload is a string that is not valid JSON,
\* its ToolCallRequest has arguments {"raw": <the string>} and the vendor's id
\* and name, the reply's tool calls are all parsed in their order, and the
\* response is not the error response: finish_reason is the vendor's.
C5_RawFallback ==
    \A c \in CallIds :
        (Done(c) /\ ReplyParsable(c)
         /\ \E i \in DOMAIN VendorCalls(c) :
                VendorCalls(c)[i].function.arguments = InvalidJson) =>
            /\ Returned(c)
            /\ DOMAIN calls[c].result.tool_calls = DOMAIN VendorCalls(c)
            /\ \A i \in DOMAIN VendorCalls(c) :
                LET tc == VendorCalls(c)[i]
                    out == calls[c].result.tool_calls[i]
                IN  /\ out.id = tc.id
                    /\ out.name = tc.function.name
                    /\ tc.function.arguments = InvalidJson =>
                           out.arguments = Dict([raw |-> InvalidJson])
                    /\ tc.function.arguments = Str("{\"city\": \"Paris\"}") =>
                           out.arguments = Dict([city |-> Str("Paris")])
            /\ VendorChoice(c).finish_reason # None =>
                   calls[c].result.finish_reason = VendorChoice(c).finish_reason.val
            /\ calls[c].result.finish_reason # "error"

C5_Witness ==
    \E c \in CallIds :
        /\ Returned(c)
        /\ ReplyParsable(c)
        /\ Len(VendorCalls(c)) = 2
        /\ VendorCalls(c)[1].function.arguments = InvalidJson
        /\ VendorCalls(c)[2].function.arguments = Str("{\"city\": \"Paris\"}")
        /\ calls[c].result.tool_calls =
              <<[id |-> "call_1", name |-> "tool_1",
                 arguments |-> Dict([raw |-> InvalidJson])],
                [id |-> "call_2", name |-> "tool_2",
                 arguments |-> Dict([city |-> Str("Paris")])]>>
        /\ calls[c].result.finish_reason = "length"

EffectiveKey == provider.client.api_key
KeyIsIndirect == config.api_key.type = "str" /\ config.api_key.val # ""
                 /\ Head(config.api_key.val) = "$"
KeyIsLiteral == config.api_key.type = "str" /\ config.api_key.val # ""
                /\ Head(config.api_key.val) # "$"
EnvName == Tail(config.api_key.val)

\* C6 as stated: "$NAME" with NAME set to v gives the effective key v, with
\* NAME unset the literal "$NAME"; a key not starting with "$" is unchanged;
\* the effective key is never empty.
C6_KeyResolution ==
    Constructed =>
        /\ (KeyIsIndirect /\ EnvName \in DOMAIN environ) =>
               EffectiveKey = Str(environ[EnvName])
        /\ (KeyIsIndirect /\ EnvName \notin DOMAIN environ) =>
               EffectiveKey = config.api_key
        /\ KeyIsLiteral => EffectiveKey = config.api_key
        /\ EffectiveKey.type = "str" /\ EffectiveKey.val # ""

\* C6 amended: "$NAME" with NAME set to a non-empty v gives the effective key
\* v, and with NAME set to the empty string gives the placeholder; with NAME
\* unset the literal "$NAME"; a key not starting with "$" is unchanged; no
\* key gives the placeholder; the effective key is never empty.
C6_KeyResolutionNonEmptyValue ==
    Constructed =>
        /\ (KeyIsIndirect /\ EnvName \in DOMAIN environ) =>
               IF environ[EnvName] # ""
               THEN EffectiveKey = Str(environ[EnvName])
               ELSE EffectiveKey = Str("dummy-key")
        /\ (KeyIsIndirect /\ EnvName \notin DOMAIN environ) =>
               EffectiveKey = config.api_key
        /\ KeyIsLiteral => EffectiveKey = config.api_key
        /\ config.api_key \in {None, Str("")} => EffectiveKey = Str("dummy-key")
        /\ EffectiveKey.type = "str" /\ EffectiveKey.val # ""

C6_Witness ==
    /\ Constructed
    /\ config.api_key = Str("$MY_KEY")
    /\ "MY_KEY" \in DOMAIN environ
    /\ environ["MY_KEY"] = "abc123"
    /\ EffectiveKey = Str("abc123")

\* The model identifiers of the inputs that contain "glm" in some letter case.
GlmFamily == {"GLM-4", "z-ai/glm4.7"}

\* The explicit model argument when one is given, else the configured default.
EffectiveModel(c) ==
    IF calls[c].args.model \in {None, Str("")}
    THEN config.default_model
    ELSE calls[c].args.model.val

\* C7: without extra options, the request carries the extended-reasoning flag
\* iff enable_thinking is true and the effective model contains "glm",
\* compared case-insensitively.
C7_ThinkingFlag ==
    \A c \in CallIds : (Sent(c) /\ DOMAIN calls[c].args.extra_kwargs = {}) =>
        LET req == calls[c].request
            flagged == /\ "extra_body" \in DOMAIN req
                       /\ req["extra_body"].type = "dict"
                       /\ "chat_template_kwargs" \in DOMAIN req["extra_body"].val
                       /\ req["extra_body"].val.chat_template_kwargs.val.enable_thinking
                              = Bool(TRUE)
        IN  /\ flagged <=> (calls[c].args.enable_thinking /\ EffectiveModel(c) \in GlmFamily)
            /\ ~flagged => "extra_body" \notin DOMAIN req
            /\ req["model"] = Str(EffectiveModel(c))

C7_Witness ==
    \E c \in CallIds :
        /\ Sent(c)
        /\ DOMAIN calls[c].args.extra_kwargs = {}
        /\ calls[c].args.model = Str("GLM-4")
        /\ config.default_model = "gpt-4"
        /\ calls[c].args.enable_thinking
        /\ "extra_body" \in DOMAIN calls[c].request

\* C8: for a reply that parses, finish_reason is "stop" when the vendor omits
\* it and the vendor's value otherwise; usage is the empty mapping when the
\* reply has no usage block and exactly the vendor's three counters
\* otherwise; the response is not an error.
C8_Defaults ==
    \A c \in CallIds : (Done(c) /\ ReplyParsable(c)) =>
        LET reply == calls[c].outcome.value
            r == calls[c].result
        IN  /\ Returned(c)
            /\ IF VendorChoice(c).finish_reason = None
               THEN r.finish_reason = "stop"
               ELSE r.finish_reason = VendorChoice(c).finish_reason.val
            /\ IF "usage" \notin DOMAIN reply \/ reply.usage = None
               THEN DOMAIN r.usage = {}
               ELSE /\ DOMAIN r.usage =
                          {"prompt_tokens", "completion_tokens", "total_tokens"}
                    /\ \A k \in DOMAIN r.usage : r.usage[k] = reply.usage.val[k]
            /\ r.finish_reason # "error"

C8_Witness ==
    \E c \in CallIds :
        /\ Returned(c)
        /\ ReplyParsable(c)
        /\ VendorChoice(c).finish_reason = None
        /\ "usage" \notin DOMAIN calls[c].outcome.value
        /\ calls[c].result.finish_reason = "stop"
        /\ DOMAIN calls[c].result.usage = {}

\* C9 as stated: a chat invocation has issued exactly one network call from
\* the moment it awaits it until it has finished, none before; a failed
\* attempt is not retried and is surfaced as the error-shaped response.
C9_OneCallErrorSurfaced ==
    \A c \in CallIds :
        /\ calls[c].pc = "idle" => calls[c].issued = 0
        /\ Sent(c) => calls[c].issued = 1
        /\ (Done(c) /\ CallFailed(c)) =>
               /\ Returned(c)
               /\ calls[c].result.finish_reason = "error"

\* C9 amended: exactly one network call per chat invocation as above; a
\* failed attempt is not retried, and is surfaced as the error-shaped response
\* when the exception is an instance of Exception; an exception that is not
\* (asyncio.CancelledError) ends the invocation by propagating, after that
\* one call.
C9_OneNetworkCall ==
    \A c \in CallIds :
        /\ calls[c].pc = "idle" => calls[c].issued = 0
        /\ Sent(c) => calls[c].issued = 1
        /\ (Done(c) /\ CallFailed(c)) =>
               IF "Exception" \in calls[c].outcome.exc.bases
               THEN /\ Returned(c)
                    /\ calls[c].result.finish_reason = "error"
               ELSE calls[c].pc = "raised"

C9_Witness ==
    \E c \in CallIds :
        /\ Returned(c)
        /\ calls[c].outcome = Raise(APIConnectionError)
        /\ calls[c].issued = 1
        /\ calls[c].result.finish_reason = "error"

\* What call c produces when it runs alone on the adapter as constructed.
Alone(c) ==
    LET self == OpenAIProvider__init__(config, environ)
        sent == [pc |-> "awaiting", issued |-> 1, args |-> calls[c].args,
                 request |-> BuildKwargs(self, calls[c].args)]
    IN  IF Done(c) THEN Resume(sent, calls[c].outcome) ELSE sent

\* C10: under every interleaving of chat calls on one adapter, the adapter
\* stays as constructed, and each call's request and response are those the
\* call produces alone: they are determined by its own arguments and reply.
C10_Independent ==
    Constructed =>
        /\ provider = OpenAIProvider__init__(config, environ)
        /\ \A c \in CallIds : Sent(c) => calls[c] = Alone(c)
        /\ \A c, d \in CallIds :
              (Sent(c) /\ Sent(d) /\ calls[c].args = calls[d].args) =>
                  /\ calls[c].request = calls[d].request
                  /\ (Done(c) /\ Done(d) /\ calls[c].outcome = calls[d].outcome) =>
                         calls[c] = calls[d]

C10_Witness ==
    /\ Returned(1) /\ Returned(2)
    /\ calls[1].args.model = None
    /\ calls[2].args.model = Str("gpt-4")
    /\ calls[1].outcome # calls[2].outcome
    /\ calls[1].result.content = "hello"
    /\ calls[2].result.finish_reason = "error"

====
